---------------------------- MODULE Spec2Model ----------------------------
(***************************************************************************)
(* Model of src/app.py: the Streamlit form that sends a text-to-video or   *)
(* image-to-video request to the fal.ai LongCat-Video endpoints.           *)
(*                                                                         *)
(* One run of main() is one script run of the page.  `pc` is the position  *)
(* of the run inside main(); the run ends at "returned" (an early return   *)
(* or the end of the function without a click), "success" (lines 279-281)  *)
(* or "failed" (line 283).  UserInteraction starts the next run.           *)
(*                                                                         *)
(* Encoding of Python values:                                              *)
(*   str            a sequence of one-character strings, "" is << >>       *)
(*   Optional[x]    << >> for None, << x >> for a value                    *)
(*   float slider   tenths (4.0 is 40, step 0.5 is 5)                      *)
(*   URL            a natural number 1..NumUrls                            *)
(*   JSON value     a record tagged by kind: "missing" (key absent, .get   *)
(*                  gives None), "scalar" (present, not a dict), "dict"    *)
(***************************************************************************)
EXTENDS Integers, Sequences, FiniteSets, TLC

VARIABLES
    FalClient,            \* module global, lines 13-17: "class" or "None"
    FAL_KEY,              \* os.getenv("FAL_KEY"): Optional[str]
    pc,                   \* position of the current run of main()
    client,               \* main's local `client`: "None", "client", "unset"
    construct_raised,     \* FalClient(api_key) raised inside get_client
    mode,                 \* st.selectbox value
    prompt,               \* st.text_area value
    negative_prompt,      \* st.text_input value
    duration_seconds,     \* st.slider value
    guidance_scale,       \* st.slider value, in tenths
    num_inference_steps,  \* st.slider value
    uploaded_file,        \* what the user put in the file uploader
    generate_button,      \* st.button value for this run
    num_frames,           \* main's local, 0 until line 225 has run
    image_file,           \* main's local, Optional
    image_url,            \* main's local, Optional URL
    result,               \* the response client.subscribe returned, Optional
    video_url,            \* main's local, Optional URL
    exception,            \* the exception in flight / caught, Optional text
    outputs,              \* what this run rendered, in order
    calls                 \* the client calls this run made, in order

vars == << FalClient, FAL_KEY, pc, client, construct_raised, mode, prompt,
           negative_prompt, duration_seconds, guidance_scale,
           num_inference_steps, uploaded_file, generate_button, num_frames,
           image_file, image_url, result, video_url, exception, outputs,
           calls >>

-----------------------------------------------------------------------------
(* Bounds of the model *)

MaxPromptLen == 1
NumUrls == 2

(* Program constants *)

fps == 30
MinDuration == 3
MaxDuration == 20
DefaultDuration == 6
MinGuidanceScale == 10
MaxGuidanceScale == 100
DefaultGuidanceScale == 40
MinInferenceSteps == 8
MaxInferenceSteps == 50
DefaultInferenceSteps == 40

-----------------------------------------------------------------------------
(* Values *)

None == << >>
Some(x) == << x >>

Chars == {" ", "a"}
Strings(n) == UNION { [1..k -> Chars] : k \in 0..n }
Prompts == Strings(MaxPromptLen)
NegativePrompts == { << >>, << "b" >> }
ApiKeys == { None, Some(<< >>), Some(<< "k" >>) }

\* Python truthiness of a str: not empty
Truthy(s) == s # << >>
\* Python truthiness of an Optional[str]: not None and not empty
TruthyOpt(o) == o # None /\ Truthy(o[1])

TextToVideo == "Text-to-Video"
ImageToVideo == "Image-to-Video"
Modes == { TextToVideo, ImageToVideo }

Durations == MinDuration..MaxDuration
\* the slider ends and the slider default
GuidanceScales == { MinGuidanceScale, DefaultGuidanceScale, MaxGuidanceScale }
InferenceSteps == { MinInferenceSteps, DefaultInferenceSteps, MaxInferenceSteps }

Urls == 1..NumUrls

T2VEndpoint == "fal-ai/longcat-video/text-to-video/720p"
I2VEndpoint == "fal-ai/longcat-video/image-to-video/720p"

(* JSON values a response can hold under "video" *)
VideoValues ==
    [kind : {"missing", "scalar", "dict"}, url : {None}]
    \cup [kind : {"dict"}, url : {Some(u) : u \in Urls}]
MissingValue == [kind |-> "missing", url |-> None]
(* JSON values a response can hold under "data" *)
DataValues ==
    [kind : {"missing", "scalar"}, video : {MissingValue}]
    \cup [kind : {"dict"}, video : VideoValues]
(* The mappings client.subscribe can return *)
Responses == [video : VideoValues, data : DataValues]

\* isinstance(v, dict)
IsDict(v) == v.kind = "dict"
\* "url" in v, for a dict v
HasUrl(v) == v.url # None

(* Exception texts *)
ReadError == "image_file.read() failed"
TempFileError == "tempfile failed"
UploadError == "upload_file failed"
SubscribeError == "subscribe failed"
UnexpectedFormat == "Unexpected response format from fal API: missing video URL"

(* Rendered elements *)
Rendered(kind, text, url) == [kind |-> kind, text |-> text, url |-> url]
LibraryMissingMsg == Rendered("error", << "The fal-client library is not installed." >>, None)
KeyMissingMsg == Rendered("error", << "Fal API key not found." >>, None)
PromptWarning == Rendered("warning", << "Please enter a prompt to guide the video generation." >>, None)
ImageWarning == Rendered("warning", << "Please upload an image to animate." >>, None)
SuccessMsg == Rendered("success", << "Video generated successfully!" >>, None)
VideoElem(u) == Rendered("video", << >>, Some(u))
DownloadLink(u) == Rendered("markdown", << "Download video" >>, Some(u))
FailureMsg(e) == Rendered("error", << "Generation failed: ", e >>, None)


-----------------------------------------------------------------------------
(* get_client testing `api_key is None` instead of `not api_key` *)
get_client_NoneOnly(api_key, ctor_raises) ==
    IF api_key = None
      THEN "None"
      ELSE IF ctor_raises THEN "None" ELSE "client"

(* get_client, lines 20-35.  ctor_raises: whether FalClient(api_key) raises. *)

get_client(api_key, ctor_raises) ==
    IF ~TruthyOpt(api_key)
      THEN "None"
      ELSE IF ctor_raises THEN "None" ELSE "client"

(* generate_text_to_video sending negative_prompt unconditionally *)
T2VArguments_AlwaysNegative(p, frames, guidance, steps, neg) ==
    [prompt |-> p,
     num_frames |-> frames,
     guidance_scale |-> guidance,
     num_inference_steps |-> steps,
     negative_prompt |-> IF neg = None THEN << >> ELSE neg[1],
     fps |-> 30]

(* The arguments dictionary of generate_text_to_video, lines 93-103 *)
T2VArguments(p, frames, guidance, steps, neg) ==
    LET base == [prompt |-> p,
                 num_frames |-> frames,
                 guidance_scale |-> guidance,
                 num_inference_steps |-> steps]
        withNeg == IF TruthyOpt(neg)
                     THEN base @@ ("negative_prompt" :> neg[1])
                     ELSE base
    IN  withNeg @@ ("fps" :> 30)

(* generate_text_to_video looking under "data" before the top level *)
T2VExtract_DataFirst(r) ==
    IF IsDict(r.data) /\ IsDict(r.data.video) /\ HasUrl(r.data.video)
      THEN [url |-> r.data.video.url, error |-> None]
      ELSE IF IsDict(r.video) /\ HasUrl(r.video)
             THEN [url |-> r.video.url, error |-> None]
             ELSE [url |-> None, error |-> Some(UnexpectedFormat)]

(* generate_text_to_video without the final raise: it returns None *)
T2VExtract_NoRaise(r) ==
    IF IsDict(r.video) /\ HasUrl(r.video)
      THEN [url |-> r.video.url, error |-> None]
      ELSE IF IsDict(r.data) /\ IsDict(r.data.video) /\ HasUrl(r.data.video)
             THEN [url |-> r.data.video.url, error |-> None]
             ELSE [url |-> None, error |-> None]

(* Response extraction of generate_text_to_video, lines 108-117:            *)
(* the URL returned, or the error raised.                                   *)
T2VExtract(r) ==
    LET video == r.video
        data == r.data
    IN  IF IsDict(video) /\ HasUrl(video)
          THEN [url |-> video.url, error |-> None]
          ELSE IF IsDict(data) /\ IsDict(data.video) /\ HasUrl(data.video)
                 THEN [url |-> data.video.url, error |-> None]
                 ELSE [url |-> None, error |-> Some(UnexpectedFormat)]

(* The arguments dictionary of generate_image_to_video, lines 153-162 *)
I2VArguments(url, p, frames, guidance, steps, neg) ==
    LET base == [image_url |-> url,
                 prompt |-> p,
                 num_frames |-> frames,
                 guidance_scale |-> guidance,
                 num_inference_steps |-> steps]
        withNeg == IF TruthyOpt(neg)
                     THEN base @@ ("negative_prompt" :> neg[1])
                     ELSE base
    IN  withNeg @@ ("fps" :> 30)

(* generate_image_to_video without the "data" fallback *)
I2VExtract_NoFallback(r) ==
    IF IsDict(r.video) /\ HasUrl(r.video)
      THEN [url |-> r.video.url, error |-> None]
      ELSE [url |-> None, error |-> Some(UnexpectedFormat)]

(* Response extraction of generate_image_to_video, lines 164-172 *)
I2VExtract(r) ==
    LET video == r.video
        data == r.data
    IN  IF IsDict(video) /\ HasUrl(video)
          THEN [url |-> video.url, error |-> None]
          ELSE IF IsDict(data) /\ IsDict(data.video) /\ HasUrl(data.video)
                 THEN [url |-> data.video.url, error |-> None]
                 ELSE [url |-> None, error |-> Some(UnexpectedFormat)]

\* `negative_prompt if negative_prompt else None`, lines 258 and 276
NegativePromptArg(neg) == IF Truthy(neg) THEN Some(neg) ELSE None

(* Entries of the call log *)
UploadCall(ret) ==
    [op |-> "upload_file", endpoint |-> "", arguments |-> << >>, ret |-> ret]
SubscribeCall(endpoint, arguments) ==
    [op |-> "subscribe", endpoint |-> endpoint, arguments |-> arguments, ret |-> None]

-----------------------------------------------------------------------------
(* The run of main() *)

Terminal == { "returned", "success", "failed" }

Init ==
    /\ FalClient \in { "class", "None" }
    /\ FAL_KEY \in ApiKeys
    /\ pc = "main"
    /\ client = "unset"
    /\ construct_raised = FALSE
    /\ mode = TextToVideo
    /\ prompt = << >>
    /\ negative_prompt = << >>
    /\ duration_seconds = DefaultDuration
    /\ guidance_scale = DefaultGuidanceScale
    /\ num_inference_steps = DefaultInferenceSteps
    /\ uploaded_file = None
    /\ generate_button = FALSE
    /\ num_frames = 0
    /\ image_file = None
    /\ image_url = None
    /\ result = None
    /\ video_url = None
    /\ exception = None
    /\ outputs = << >>
    /\ calls = << >>

env == << FalClient, FAL_KEY >>
widgets == << mode, prompt, negative_prompt, duration_seconds, guidance_scale,
              num_inference_steps, uploaded_file, generate_button >>
locals == << num_frames, image_file, image_url, result, video_url, exception >>

(* The user acts on the page and the script is rerun from the top with    *)
(* the widget values of lines 203-242.  One interaction changes one widget *)
(* or clicks the button; st.button is True only in the run its click       *)
(* starts.  The widgets exist only when the previous run rendered them     *)
(* (it got past line 200), and the file uploader only in image mode (line  *)
(* 236); without widgets the page can only be run again.                   *)
WidgetChange ==
    \/ /\ mode' \in Modes \ { mode }
       /\ uploaded_file' = None
       /\ UNCHANGED << prompt, negative_prompt, duration_seconds, guidance_scale,
                       num_inference_steps >>
    \/ /\ prompt' \in Prompts \ { prompt }
       /\ UNCHANGED << mode, negative_prompt, duration_seconds, guidance_scale,
                       num_inference_steps, uploaded_file >>
    \/ /\ negative_prompt' \in NegativePrompts \ { negative_prompt }
       /\ UNCHANGED << mode, prompt, duration_seconds, guidance_scale,
                       num_inference_steps, uploaded_file >>
    \/ /\ duration_seconds' \in Durations \ { duration_seconds }
       /\ UNCHANGED << mode, prompt, negative_prompt, guidance_scale,
                       num_inference_steps, uploaded_file >>
    \/ /\ guidance_scale' \in GuidanceScales \ { guidance_scale }
       /\ UNCHANGED << mode, prompt, negative_prompt, duration_seconds,
                       num_inference_steps, uploaded_file >>
    \/ /\ num_inference_steps' \in InferenceSteps \ { num_inference_steps }
       /\ UNCHANGED << mode, prompt, negative_prompt, duration_seconds,
                       guidance_scale, uploaded_file >>
    \/ /\ mode = ImageToVideo
       /\ uploaded_file' \in { None, Some("image") } \ { uploaded_file }
       /\ UNCHANGED << mode, prompt, negative_prompt, duration_seconds,
                       guidance_scale, num_inference_steps >>

UserInteraction ==
    /\ pc \in Terminal
    /\ \/ /\ client = "client"
          /\ WidgetChange
          /\ generate_button' = FALSE
       \/ /\ client = "client"
          /\ generate_button' = TRUE
          /\ UNCHANGED << mode, prompt, negative_prompt, duration_seconds,
                          guidance_scale, num_inference_steps, uploaded_file >>
       \/ /\ generate_button' = FALSE
          /\ UNCHANGED << mode, prompt, negative_prompt, duration_seconds,
                          guidance_scale, num_inference_steps, uploaded_file >>
    /\ pc' = "main"
    /\ client' = "unset"
    /\ construct_raised' = FALSE
    /\ num_frames' = 0
    /\ image_file' = None
    /\ image_url' = None
    /\ result' = None
    /\ video_url' = None
    /\ exception' = None
    /\ outputs' = << >>
    /\ calls' = << >>
    /\ UNCHANGED env

(* lines 186-191 *)
CheckFalClient ==
    /\ pc = "main"
    /\ IF FalClient = "None"
         THEN /\ outputs' = Append(outputs, LibraryMissingMsg)
              /\ pc' = "returned"
         ELSE /\ pc' = "get_client"
              /\ UNCHANGED outputs
    /\ UNCHANGED << env, widgets, locals, client, construct_raised, calls >>

(* lines 194-200 *)
GetClient ==
    /\ pc = "get_client"
    /\ \E ctor_raises \in BOOLEAN :
         /\ construct_raised' = (TruthyOpt(FAL_KEY) /\ ctor_raises)
         /\ client' = get_client(FAL_KEY, ctor_raises)
    /\ IF client' = "None"
         THEN /\ outputs' = Append(outputs, KeyMissingMsg)
              /\ pc' = "returned"
         ELSE /\ pc' = "widgets"
              /\ UNCHANGED outputs
    /\ UNCHANGED << env, widgets, locals, calls >>

(* main passing the duration as the frame count *)
CollectInputs_NoFps ==
    /\ pc = "widgets"
    /\ num_frames' = duration_seconds
    /\ image_file' = IF mode = ImageToVideo THEN uploaded_file ELSE None
    /\ pc' = IF generate_button THEN "validate_prompt" ELSE "returned"
    /\ UNCHANGED << env, widgets, client, construct_raised, image_url, result,
                    video_url, exception, outputs, calls >>

(* lines 203-244 *)
CollectInputs ==
    /\ pc = "widgets"
    /\ num_frames' = duration_seconds * fps
    /\ image_file' = IF mode = ImageToVideo THEN uploaded_file ELSE None
    /\ pc' = IF generate_button THEN "validate_prompt" ELSE "returned"
    /\ UNCHANGED << env, widgets, client, construct_raised, image_url, result,
                    video_url, exception, outputs, calls >>

(* main taking the text branch in image mode and the image branch in text mode *)
ValidatePrompt_WrongDispatch ==
    /\ pc = "validate_prompt"
    /\ IF ~Truthy(prompt)
         THEN /\ outputs' = Append(outputs, PromptWarning)
              /\ pc' = "returned"
         ELSE /\ pc' = IF mode = ImageToVideo THEN "text_to_video" ELSE "validate_image"
              /\ UNCHANGED outputs
    /\ UNCHANGED << env, widgets, locals, client, construct_raised, calls >>

(* lines 246-250, 260 *)
ValidatePrompt ==
    /\ pc = "validate_prompt"
    /\ IF ~Truthy(prompt)
         THEN /\ outputs' = Append(outputs, PromptWarning)
              /\ pc' = "returned"
         ELSE /\ pc' = IF mode = TextToVideo THEN "text_to_video" ELSE "validate_image"
              /\ UNCHANGED outputs
    /\ UNCHANGED << env, widgets, locals, client, construct_raised, calls >>

(* main without the check of lines 261-263 *)
ValidateImage_NoCheck ==
    /\ pc = "validate_image"
    /\ pc' = "read_image"
    /\ UNCHANGED << env, widgets, locals, client, construct_raised, calls, outputs >>

(* lines 261-263 *)
ValidateImage ==
    /\ pc = "validate_image"
    /\ IF image_file = None
         THEN /\ outputs' = Append(outputs, ImageWarning)
              /\ pc' = "returned"
         ELSE /\ pc' = "read_image"
              /\ UNCHANGED outputs
    /\ UNCHANGED << env, widgets, locals, client, construct_raised, calls >>

(* line 265: image_file.read() returns the bytes or raises *)
ReadImage ==
    /\ pc = "read_image"
    /\ \/ /\ pc' = "upload_image"
          /\ UNCHANGED exception
       \/ /\ pc' = "except"
          /\ exception' = Some(ReadError)
    /\ UNCHANGED << env, widgets, client, construct_raised, num_frames, image_file,
                    image_url, result, video_url, outputs, calls >>

(* lines 266-267 and upload_image, lines 54-59: the temporary file is      *)
(* written (or that raises), then client.upload_file returns a URL or      *)
(* raises.                                                                 *)
UploadImage ==
    /\ pc = "upload_image"
    /\ \/ /\ pc' = "except"
          /\ exception' = Some(TempFileError)
          /\ UNCHANGED << image_url, calls >>
       \/ /\ pc' = "except"
          /\ exception' = Some(UploadError)
          /\ calls' = Append(calls, UploadCall(None))
          /\ UNCHANGED image_url
       \/ \E u \in Urls :
            /\ calls' = Append(calls, UploadCall(Some(u)))
            /\ image_url' = Some(u)
            /\ pc' = "image_to_video"
            /\ UNCHANGED exception
    /\ UNCHANGED << env, widgets, client, construct_raised, num_frames, image_file,
                    result, video_url, outputs >>

(* lines 251-259 and generate_text_to_video, lines 93-117 *)
GenerateTextToVideo ==
    /\ pc = "text_to_video"
    /\ calls' = Append(calls,
                  SubscribeCall(T2VEndpoint,
                     T2VArguments(prompt, num_frames, guidance_scale,
                                  num_inference_steps,
                                  NegativePromptArg(negative_prompt))))
    /\ \/ /\ exception' = Some(SubscribeError)
          /\ pc' = "except"
          /\ UNCHANGED << result, video_url >>
       \/ \E r \in Responses :
            /\ result' = Some(r)
            /\ LET x == T2VExtract(r)
               IN  IF x.error = None
                     THEN /\ video_url' = x.url
                          /\ pc' = "display"
                          /\ UNCHANGED exception
                     ELSE /\ exception' = x.error
                          /\ pc' = "except"
                          /\ UNCHANGED video_url
    /\ UNCHANGED << env, widgets, client, construct_raised, num_frames, image_file,
                    image_url, outputs >>

(* lines 268-277 and generate_image_to_video, lines 153-172 *)
GenerateImageToVideo ==
    /\ pc = "image_to_video"
    /\ calls' = Append(calls,
                  SubscribeCall(I2VEndpoint,
                     I2VArguments(image_url[1], prompt, num_frames, guidance_scale,
                                  num_inference_steps,
                                  NegativePromptArg(negative_prompt))))
    /\ \/ /\ exception' = Some(SubscribeError)
          /\ pc' = "except"
          /\ UNCHANGED << result, video_url >>
       \/ \E r \in Responses :
            /\ result' = Some(r)
            /\ LET x == I2VExtract(r)
               IN  IF x.error = None
                     THEN /\ video_url' = x.url
                          /\ pc' = "display"
                          /\ UNCHANGED exception
                     ELSE /\ exception' = x.error
                          /\ pc' = "except"
                          /\ UNCHANGED video_url
    /\ UNCHANGED << env, widgets, client, construct_raised, num_frames, image_file,
                    image_url, outputs >>

(* lines 279-281 *)
DisplayVideo ==
    /\ pc = "display"
    /\ outputs' = outputs \o << SuccessMsg, VideoElem(video_url[1]),
                                DownloadLink(video_url[1]) >>
    /\ pc' = "success"
    /\ UNCHANGED << env, widgets, locals, client, construct_raised, calls >>

(* main swallowing the exception: `except Exception: pass` *)
CatchException_Swallow ==
    /\ pc = "except"
    /\ pc' = "failed"
    /\ UNCHANGED << env, widgets, locals, client, construct_raised, calls, outputs >>

(* lines 282-283 *)
CatchException ==
    /\ pc = "except"
    /\ outputs' = Append(outputs, FailureMsg(exception[1]))
    /\ pc' = "failed"
    /\ UNCHANGED << env, widgets, locals, client, construct_raised, calls >>

Next ==
    \/ UserInteraction
    \/ CheckFalClient
    \/ GetClient
    \/ CollectInputs
    \/ ValidatePrompt
    \/ ValidateImage
    \/ ReadImage
    \/ UploadImage
    \/ GenerateTextToVideo
    \/ GenerateImageToVideo
    \/ DisplayVideo
    \/ CatchException

Spec == Init /\ [][Next]_vars

-----------------------------------------------------------------------------
(* Vocabulary of the properties *)

SubscribeCalls == { i \in 1..Len(calls) : calls[i].op = "subscribe" }
UploadCalls == { i \in 1..Len(calls) : calls[i].op = "upload_file" }
Shown(kind) == \E i \in 1..Len(outputs) : outputs[i].kind = kind

\* the prompt is empty or consists only of whitespace
IsBlank(s) == \A i \in 1..Len(s) : s[i] = " "

\* main has reached line 244 of this run with the button pressed
Submitted == generate_button /\ client = "client"
\* the checks of lines 246 and 261 let the submission through
PassesValidation ==
    /\ Submitted
    /\ Truthy(prompt)
    /\ (mode = ImageToVideo => uploaded_file # None)

\* the response matches the top-level shape {"video": {"url": U}}
TopShape(r) == r.video.kind = "dict" /\ r.video.url # None
\* the response matches the shape {"data": {"video": {"url": U}}}
DataShape(r) ==
    r.data.kind = "dict" /\ r.data.video.kind = "dict" /\ r.data.video.url # None

-----------------------------------------------------------------------------
(* C1: every submission whose prompt is empty or consists only of          *)
(* whitespace is rejected with the prompt warning and makes no call of     *)
(* client.upload_file or client.subscribe.                                 *)
C1_BlankPromptRejected ==
    (Submitted /\ IsBlank(prompt)) =>
        /\ calls = << >>
        /\ pc \in Terminal => (pc = "returned" /\ outputs = << PromptWarning >>)

(* C2: a submission in Image-to-Video mode with a non-empty prompt and no  *)
(* image file is rejected with the image warning; it calls neither         *)
(* client.upload_file nor client.subscribe and shows neither the success   *)
(* nor an error message.                                                   *)
C2_MissingImageRejected ==
    (Submitted /\ mode = ImageToVideo /\ uploaded_file = None /\ Truthy(prompt)) =>
        /\ calls = << >>
        /\ ~Shown("success") /\ ~Shown("error") /\ ~Shown("video")
        /\ pc \notin { "success", "failed", "except", "display" }
        /\ pc \in Terminal => outputs = << ImageWarning >>

C2_Witness ==
    /\ Submitted /\ mode = ImageToVideo /\ uploaded_file = None /\ Truthy(prompt)
    /\ pc = "returned"
    /\ outputs = << ImageWarning >>

(* C3: when FAL_KEY is absent or empty, or constructing FalClient raises,  *)
(* get_client returns None and nothing propagates; main reports the        *)
(* configuration error and returns, and the run makes no call of           *)
(* client.upload_file or client.subscribe.                                 *)
C3_NoClientNoCalls ==
    /\ ~TruthyOpt(FAL_KEY) => (calls = << >> /\ client # "client")
    /\ (/\ pc \notin { "main", "get_client" }
        /\ FalClient = "class"
        /\ (~TruthyOpt(FAL_KEY) \/ construct_raised)) =>
          /\ client = "None"
          /\ exception = None
          /\ pc = "returned"
          /\ outputs = << KeyMissingMsg >>
          /\ calls = << >>

C3_Witness ==
    /\ FAL_KEY = Some(<< >>)
    /\ FalClient = "class"
    /\ client = "None"
    /\ pc = "returned"
    /\ outputs = << KeyMissingMsg >>

(* C4: when the response has a top-level "video" mapping with "url" = U,   *)
(* the generation call returns exactly U, whatever is under "data".        *)
C4_TopLevelUrlReturned ==
    (result # None /\ TopShape(result[1])) =>
        /\ video_url = result[1].video.url
        /\ exception = None
        /\ pc \in { "display", "success" }

C4_Witness ==
    /\ pc = "success"
    /\ mode = TextToVideo
    /\ result # None
    /\ result[1].video = [kind |-> "dict", url |-> Some(1)]
    /\ result[1].data = [kind |-> "dict", video |-> [kind |-> "dict", url |-> Some(2)]]
    /\ video_url = Some(1)

(* C5: when the response does not match the top-level shape but "data" is  *)
(* a mapping holding a "video" mapping with "url" = U, the generation      *)
(* call returns exactly U.                                                 *)
C5_DataUrlReturned ==
    (result # None /\ ~TopShape(result[1]) /\ DataShape(result[1])) =>
        /\ video_url = result[1].data.video.url
        /\ exception = None
        /\ pc \in { "display", "success" }

C5_Witness ==
    /\ pc = "success"
    /\ mode = ImageToVideo
    /\ result # None
    /\ result[1].video = [kind |-> "dict", url |-> None]
    /\ result[1].data = [kind |-> "dict", video |-> [kind |-> "dict", url |-> Some(2)]]
    /\ video_url = Some(2)

C7_FrameCount ==
    /\ duration_seconds \in 3..20
    /\ \A i \in SubscribeCalls :
         /\ calls[i].arguments.num_frames = duration_seconds * 30
         /\ calls[i].arguments.num_frames \in 90..600
         /\ duration_seconds = 6 => calls[i].arguments.num_frames = 180
         /\ calls[i].arguments.fps = 30

C7_Witness ==
    /\ duration_seconds = 20
    /\ mode = ImageToVideo
    /\ \E i \in SubscribeCalls : calls[i].arguments.num_frames = 600

Phase(p) ==
    CASE p \in { "main", "get_client", "widgets", "returned" } -> "idle"
      [] p \in { "validate_prompt", "validate_image" } -> "validating"
      [] p \in { "read_image", "upload_image" } -> "uploading"
      [] p \in { "text_to_video", "image_to_video" } -> "submitting"
      [] p \in { "display", "success" } -> "success"
      [] p \in { "except", "failed" } -> "failed"

LinearStep ==
    LET from == Phase(pc)
        to == Phase(pc')
    IN  \/ from = to
        \/ from = "idle" /\ to = "validating"
        \/ from = "validating" /\ to = "idle"
        \/ from = "validating" /\ to = "uploading" /\ mode = ImageToVideo
        \/ from = "validating" /\ to = "submitting" /\ mode = TextToVideo
        \/ from = "uploading" /\ to \in { "submitting", "failed" }
        \/ from = "submitting" /\ to \in { "success", "failed" }
        \/ from \in { "success", "failed" } /\ to = "idle"

CallOrder ==
    /\ \A i \in SubscribeCalls :
         IF mode = ImageToVideo
           THEN /\ calls[i].endpoint = I2VEndpoint
                /\ \E j \in UploadCalls :
                     /\ j < i
                     /\ calls[j].ret # None
                     /\ calls[i].arguments.image_url = calls[j].ret[1]
           ELSE /\ calls[i].endpoint = T2VEndpoint
                /\ "image_url" \notin DOMAIN calls[i].arguments
    /\ mode = TextToVideo => UploadCalls = { }
    /\ (\E j \in UploadCalls : calls[j].ret = None) => SubscribeCalls = { }
    /\ Phase(pc) = "submitting" /\ mode = ImageToVideo =>
         \E j \in UploadCalls : calls[j].ret = image_url /\ image_url # None

C9_LinearLifecycle == [][LinearStep]_vars /\ []CallOrder

C9_Witness ==
    /\ pc = "success"
    /\ mode = ImageToVideo
    /\ Len(calls) = 2
    /\ calls[1].op = "upload_file" /\ calls[1].ret = Some(2)
    /\ calls[2].op = "subscribe" /\ calls[2].arguments.image_url = 2

(* C10: the request passed to client.subscribe holds prompt, num_frames,   *)
(* guidance_scale and num_inference_steps as supplied, and fps; it holds   *)
(* negative_prompt exactly when the user gave a non-empty one, and         *)
(* image_url exactly when the call is image-to-video; nothing else.        *)
RequiredFields ==
    { "prompt", "num_frames", "guidance_scale", "num_inference_steps", "fps" }

C10_RequestFields ==
    \A i \in SubscribeCalls :
        LET a == calls[i].arguments
            i2v == calls[i].endpoint = I2VEndpoint
        IN  /\ i2v <=> mode = ImageToVideo
            /\ DOMAIN a = RequiredFields
                 \cup (IF negative_prompt # << >> THEN { "negative_prompt" } ELSE { })
                 \cup (IF i2v THEN { "image_url" } ELSE { })
            /\ a.prompt = prompt
            /\ a.num_frames = num_frames
            /\ a.guidance_scale = guidance_scale
            /\ a.num_inference_steps = num_inference_steps
            /\ a.fps = 30
            /\ negative_prompt # << >> => a.negative_prompt = negative_prompt

C10_Witness ==
    \E i \in SubscribeCalls :
        /\ calls[i].endpoint = I2VEndpoint
        /\ DOMAIN calls[i].arguments = RequiredFields \cup { "negative_prompt", "image_url" }
        /\ calls[i].arguments.negative_prompt = << "b" >>
        /\ calls[i].arguments.guidance_scale = MaxGuidanceScale

=============================================================================
